---- MODULE Spec2Model ----
(***************************************************************************)
(* Model of the request batching middleware (batchRequestMiddleware and    *)
(* its helpers addRequestToBatch, commitEventually and commit).            *)
(*                                                                         *)
(* One action per task of the event loop: a call of the middleware, the    *)
(* passage of time, a timer callback, and the transport settling one       *)
(* combined request (together with the promise reactions it triggers).     *)
(***************************************************************************)
EXTENDS Naturals, Sequences, FiniteSets

(* ---- bounds of the model ---------------------------------------------- *)

\* MAX_BATCH_SIZE is 20 in the source; the model runs the same comparison
\* (requestIdx + 1 >= MAX_BATCH_SIZE) with a threshold small enough to fill.
ScaledBatchSize == 3

MAX_BATCH_SIZE == ScaledBatchSize

\* BATCH_TIME_WINDOW is 1000 ms in the source; the model counts the window
\* in clock ticks.
WindowTicks == 2

BATCH_TIME_WINDOW == WindowTicks

\* Number of middleware calls in one behaviour.
MaxCalls == 5

\* Number of middleware calls in one behaviour of the fair specification.
MaxFairCalls == 4

\* Number of those calls that bypass batching.
MaxForwards == 1

\* Number of eligible calls of one behaviour that do not use its most used
\* batch key.
MaxSideCalls == 1

(* ---- values ----------------------------------------------------------- *)

\* batch.promise is null until commitEventually creates the promise; the
\* promises of a key are numbered from 1.
NoPromise == 0

\* Values a caller can see are tagged tuples.
Undefined == << "undefined" >>
Pending == << "pending" >>

\* A path is a sequence of segments; "/wp/v2/template-parts/7" is
\* << "wp", "v2", "template-parts", "7" >>.
TemplatePartPath == << "wp", "v2", "template-parts", "7" >>
PostPath == << "wp", "v2", "posts", "7" >>
BatchEndpoint == << "wp", "__experimental", "batch" >>
BatchNeedle == << "v2", "template-parts" >>

\* The kinds of options the callers pass in (method, batchAs, path).  The
\* empty tag stands for a missing batchAs.
InputKinds ==
    << << "POST", "g1", TemplatePartPath >>,
       << "POST", "g2", TemplatePartPath >>,
       << "PUT", "g1", TemplatePartPath >>,
       << "GET", "g1", TemplatePartPath >>,
       << "POST", "", TemplatePartPath >>,
       << "POST", "g1", PostPath >> >>

Inputs == DOMAIN InputKinds

\* The options of the n-th call of a kind; body and headers tell the calls
\* apart.
Options(in, n) ==
    [ method |-> InputKinds[in][1], batchAs |-> InputKinds[in][2],
      path |-> InputKinds[in][3],
      body |-> << "body", in, n >>, headers |-> << "X-Seq", n >> ]

VARIABLES
    awaitingBatches,  \* the registry: batchId -> [promise, requests]
    promises,         \* per key, the batch promises: 0 while pending, else
                      \* the number of the combined request they adopted
    timers,           \* pending setTimeout callbacks
    fetches,          \* per key, the apiFetch calls made by commit
    nextCalls,        \* the options handed to next()
    calls,            \* per kind of options, one record per middleware call
    thrown,           \* uncaught TypeErrors raised in timer callbacks
    elapsed           \* per pending batch, the ticks since its first request

vars ==
    << awaitingBatches, promises, timers, fetches, nextCalls, calls, thrown, elapsed >>

(* ---- pure helpers ----------------------------------------------------- *)

\* String.prototype.indexOf at segment granularity: the first position (from
\* 0) at which needle occurs in path, or -1 (modelled as Len(path) + 1).
NotFound(path) == Len(path) + 1

indexOf(path, needle) ==
    LET hits == { i \in 0..Len(path) :
                    /\ i + Len(needle) <= Len(path)
                    /\ \A j \in 1..Len(needle) : path[i + j] = needle[j] }
    IN IF hits = {} THEN NotFound(path)
       ELSE CHOOSE i \in hits : \A k \in hits : i <= k

endpointSupportsBatch(path) == indexOf(path, BatchNeedle) # NotFound(path)

\* [ 'POST', 'PUT', 'PATCH', 'DELETE' ].includes( options.method )
BatchMethods == { "POST", "PUT", "PATCH", "DELETE" }

\* !options.batchAs : the empty string (like a missing tag) is falsy
Truthy(v) == v # ""

\* Bypasses without the test of the path.
BypassesAnyPath(options) ==
    \/ options.method \notin BatchMethods
    \/ ~Truthy(options.batchAs)

Bypasses(options) ==
    \/ options.method \notin BatchMethods
    \/ ~Truthy(options.batchAs)
    \/ ~endpointSupportsBatch(options.path)

\* JSON.stringify( [ options.batchAs, options.method ] ) for two strings:
\* the quoted elements between brackets.
Quote(s) == << "\"", s, "\"" >>

\* A batch id that leaves the method out.
BatchIdOfTag(options) ==
    << "[" >> \o Quote(options.batchAs) \o << "]" >>

BatchIdOf(options) ==
    << "[" >> \o Quote(options.batchAs) \o << "," >> \o Quote(options.method) \o << "]" >>

\* The batch ids the eligible kinds of options produce.
BatchIds ==
    { BatchIdOf(Options(in, 1)) : in \in { k \in Inputs : ~Bypasses(Options(k, 1)) } }

\* The raw options, sent as they are.
ProjectRaw(options) == options

\* What commit sends for one pending request.
Project(options) ==
    [ path |-> options.path, body |-> options.body, headers |-> options.headers ]

MapProject(requests) == [ i \in 1..Len(requests) |-> Project(requests[i]) ]

\* The combined request commit hands to apiFetch.
BatchRequest(requests) ==
    [ path |-> BatchEndpoint,
      method |-> "POST",
      data |-> [ validation |-> "require-all-validate",
                 requests |-> MapProject(requests) ] ]

\* A commit that leaves the batch in the registry.
DeleteNothing(reg, batchId) == reg

\* delete awaitingBatches[ batchId ]
Delete(reg, batchId) == [ k \in DOMAIN reg \ { batchId } |-> reg[k] ]

\* subResponses[ requestIdx ]
At(subResponses, requestIdx) ==
    IF requestIdx + 1 \in DOMAIN subResponses
    THEN subResponses[requestIdx + 1]
    ELSE Undefined

\* The registry is a function whose domain is the set of keys present.
EmptyRegistry == [ k \in {} |-> NoPromise ]

Init ==
    /\ awaitingBatches = EmptyRegistry
    /\ promises = [ k \in BatchIds |-> << >> ]
    /\ timers = {}
    /\ fetches = [ k \in BatchIds |-> << >> ]
    /\ nextCalls = << >>
    /\ calls = [ in \in Inputs |-> << >> ]
    /\ thrown = 0
    /\ elapsed = EmptyRegistry

(* ---- the transport ---------------------------------------------------- *)

\* The sub-responses the transport returns for the f-th combined request of
\* key k: one per request sent, in the order sent.
Response(k, f) ==
    [ i \in 1..Len(fetches[k][f].request.data.requests) |-> << "response", k, f, i >> ]

\* The error the transport rejects that combined request with.
ErrorOf(k, f) == << "error", k, f >>

\* What next( options ) returns for the n-th call of next.
NextResult(n) == << "next", n >>

(* ---- the helpers of the middleware ------------------------------------ *)

\* A push that rebuilds the registry with the one key only.
addRequestToBatchAlone(reg, batchId, options) ==
    LET created == IF batchId \in DOMAIN reg
                   THEN reg[batchId]
                   ELSE [ promise |-> NoPromise, requests |-> << >> ]
    IN [ k \in { batchId } |->
           [ created EXCEPT !.requests = Append(created.requests, options) ] ]

\* addRequestToBatch: the registry after the push.
addRequestToBatch(reg, batchId, options) ==
    LET created == IF batchId \in DOMAIN reg
                   THEN reg[batchId]
                   ELSE [ promise |-> NoPromise, requests |-> << >> ]
    IN [ k \in DOMAIN reg \cup { batchId } |->
           IF k = batchId
           THEN [ created EXCEPT !.requests = Append(created.requests, options) ]
           ELSE reg[k] ]

\* A timer set one tick too long.
DelayLate == BATCH_TIME_WINDOW + 1

\* The delay commitEventually passes to setTimeout.
Delay == BATCH_TIME_WINDOW

\* A test of the promise that always asks for a new timer.
needsTimerAlways(batch) == TRUE

\* if ( ! batch.promise ) in commitEventually
needsTimer(batch) == batch.promise = NoPromise

\* The clock of the batches of registry reg: a batch that was pending keeps
\* its ticks, a new one starts at 0.
Clock(reg) ==
    [ k \in DOMAIN reg |-> IF k \in DOMAIN elapsed THEN elapsed[k] ELSE 0 ]

\* A size test that never commits.
saveNever(requestIdx) == "commitEventually"

\* The size test off by one.
saveLate(requestIdx) ==
    IF requestIdx >= MAX_BATCH_SIZE THEN "commit" ELSE "commitEventually"

\* const save = requestIdx + 1 >= MAX_BATCH_SIZE ? commit : commitEventually
save(requestIdx) ==
    IF requestIdx + 1 >= MAX_BATCH_SIZE THEN "commit" ELSE "commitEventually"

\* A commit that sends the batch and leaves it in the registry.
commitKeep(reg, batchId, trigger) ==
    LET unitOfWork == reg[batchId]
    IN [ registry |-> reg,
         fetch |-> [ request |-> BatchRequest(unitOfWork.requests),
                     status |-> "pending",
                     trigger |-> trigger ] ]

\* commit: pops the unit of work and hands the combined request to apiFetch.
\* clearTimeout is given the promise (or null), which is no timer handle, so
\* no timer is cleared.  The trigger field records who called commit.
commit(reg, batchId, trigger) ==
    LET unitOfWork == reg[batchId]
    IN [ registry |-> Delete(reg, batchId),
         fetch |-> [ request |-> BatchRequest(unitOfWork.requests),
                     status |-> "pending",
                     trigger |-> trigger ] ]

\* The combined request (of the call's key) whose outcome the call is
\* chained on, 0 while there is none.
Fetched(call, proms) ==
    IF call.via = "commit" THEN call.awaits
    ELSE IF call.via = "commitEventually" THEN proms[call.batchId][call.awaits]
    ELSE 0

\* The reaction ( subResponses ) => subResponses[ requestIdx ] of one call.
React(call, proms, fs) ==
    LET f == Fetched(call, proms)
    IN IF call.via = "next" \/ f = 0 \/ call.outcome # "pending" THEN call
       ELSE IF fs[call.batchId][f].status = "resolved"
            THEN [ call EXCEPT !.outcome = "resolved",
                               !.value = At(Response(call.batchId, f), call.requestIdx) ]
       ELSE IF fs[call.batchId][f].status = "rejected"
            THEN [ call EXCEPT !.outcome = "rejected",
                               !.value = ErrorOf(call.batchId, f) ]
       ELSE call

(* ---- actions ---------------------------------------------------------- *)

\* The calls made so far, as pairs << kind, number >>.
Callers == { id \in Inputs \X (1..MaxCalls) : id[2] <= Len(calls[id[1]]) }

\* The eligible calls made so far for batch id k.
CallsFor(k) ==
    { id \in Callers : calls[id[1]][id[2]].via # "next"
                       /\ calls[id[1]][id[2]].batchId = k }

\* With one more call for batchId, the eligible calls that do not use the
\* most used key.
SideCalls(batchId) ==
    LET total == Cardinality(UNION { CallsFor(k) : k \in BatchIds }) + 1
        count(k) == Cardinality(CallsFor(k)) + (IF k = batchId THEN 1 ELSE 0)
        most == CHOOSE k \in BatchIds : \A m \in BatchIds : count(m) <= count(k)
    IN total - count(most)

\* batchRequestMiddleware( options, next ) for a request that bypasses
\* batching.
Forward(in, options) ==
    /\ Bypasses(options)
    /\ Len(nextCalls) < MaxForwards
    /\ nextCalls' = Append(nextCalls, options)
    /\ calls' = [ calls EXCEPT ![in] = Append(@,
          [ options |-> options, via |-> "next", batchId |-> << >>,
            requestIdx |-> 0, awaits |-> Len(nextCalls) + 1,
            outcome |-> "returned", value |-> NextResult(Len(nextCalls) + 1) ]) ]
    /\ UNCHANGED << awaitingBatches, promises, timers, fetches, thrown, elapsed >>

\* batchRequestMiddleware( options, next ) for an eligible request.
Batch(in, options) ==
    /\ ~Bypasses(options)
    /\ SideCalls(BatchIdOf(options)) <= MaxSideCalls
    /\ LET batchId == BatchIdOf(options)
           added == addRequestToBatch(awaitingBatches, batchId, options)
           requestIdx == Len(added[batchId].requests) - 1
       IN IF save(requestIdx) = "commit"
          THEN \* save = commit
               /\ LET done == commit(added, batchId, "size")
                  IN /\ awaitingBatches' = done.registry
                     /\ fetches' = [ fetches EXCEPT ![batchId] = Append(@, done.fetch) ]
               /\ calls' = [ calls EXCEPT ![in] = Append(@,
                     [ options |-> options, via |-> "commit", batchId |-> batchId,
                       requestIdx |-> requestIdx,
                       awaits |-> Len(fetches[batchId]) + 1,
                       outcome |-> "pending", value |-> Pending ]) ]
               /\ UNCHANGED << promises, timers >>
          ELSE \* save = commitEventually
               /\ IF needsTimer(added[batchId])
                  THEN /\ promises' = [ promises EXCEPT ![batchId] = Append(@, 0) ]
                       /\ timers' = timers \cup
                             { [ batchId |-> batchId,
                                 promise |-> Len(promises[batchId]) + 1,
                                 remaining |-> Delay ] }
                       /\ awaitingBatches' =
                             [ added EXCEPT ![batchId].promise =
                                                 Len(promises[batchId]) + 1 ]
                  ELSE /\ awaitingBatches' = added
                       /\ UNCHANGED << promises, timers >>
               /\ calls' = [ calls EXCEPT ![in] = Append(@,
                     React([ options |-> options, via |-> "commitEventually",
                             batchId |-> batchId, requestIdx |-> requestIdx,
                             awaits |-> awaitingBatches'[batchId].promise,
                             outcome |-> "pending", value |-> Pending ],
                           promises', fetches)) ]
               /\ UNCHANGED fetches
    /\ elapsed' = Clock(awaitingBatches')
    /\ UNCHANGED << nextCalls, thrown >>

batchRequestMiddleware(in) ==
    /\ Cardinality(Callers) < MaxCalls
    /\ LET options == Options(in, Len(calls[in]) + 1)
       IN Forward(in, options) \/ Batch(in, options)

\* One tick of the clock; a timer that is due runs before the clock moves on.
Tick ==
    /\ timers # {} \/ DOMAIN awaitingBatches # {}
    /\ \A t \in timers : t.remaining > 0
    /\ timers' = { [ t EXCEPT !.remaining = t.remaining - 1 ] : t \in timers }
    /\ elapsed' = [ k \in DOMAIN elapsed |->
                      IF elapsed[k] <= BATCH_TIME_WINDOW THEN elapsed[k] + 1
                      ELSE elapsed[k] ]
    /\ UNCHANGED << awaitingBatches, promises, fetches, nextCalls, calls, thrown >>

\* The callback of setTimeout: () => resolve( commit( batchId ) ).
TimerFires(t) ==
    /\ t \in timers
    /\ t.remaining = 0
    /\ timers' = timers \ { t }
    /\ IF t.batchId \in DOMAIN awaitingBatches
       THEN /\ LET done == commit(awaitingBatches, t.batchId, "timer")
               IN /\ awaitingBatches' = done.registry
                  /\ fetches' = [ fetches EXCEPT ![t.batchId] = Append(@, done.fetch) ]
            /\ promises' = [ promises EXCEPT ![t.batchId][t.promise] =
                                                 Len(fetches[t.batchId]) + 1 ]
            /\ UNCHANGED thrown
       ELSE \* unitOfWork is undefined: unitOfWork.promise throws a TypeError,
            \* resolve is never called
            /\ thrown' = thrown + 1
            /\ UNCHANGED << awaitingBatches, fetches, promises >>
    /\ elapsed' = Clock(awaitingBatches')
    /\ UNCHANGED << nextCalls, calls >>

\* The transport settles the f-th combined request of key k; the reactions
\* of the callers chained on it run in the same task.
Settle(k, f, status) ==
    /\ k \in BatchIds
    /\ f \in 1..Len(fetches[k])
    /\ fetches[k][f].status = "pending"
    /\ fetches' = [ fetches EXCEPT ![k][f].status = status ]
    /\ calls' = [ in \in Inputs |->
                    [ n \in 1..Len(calls[in]) |-> React(calls[in][n], promises, fetches') ] ]
    /\ UNCHANGED << awaitingBatches, promises, timers, nextCalls, thrown, elapsed >>

TransportResolves(k, f) == Settle(k, f, "resolved")

TransportRejects(k, f) == Settle(k, f, "rejected")

Next ==
    \/ \E in \in Inputs : batchRequestMiddleware(in)
    \/ Tick
    \/ \E t \in timers : TimerFires(t)
    \/ \E k \in BatchIds : \E f \in 1..Len(fetches[k]) : TransportResolves(k, f)
    \/ \E k \in BatchIds : \E f \in 1..Len(fetches[k]) : TransportRejects(k, f)

Spec == Init /\ [][Next]_vars

\* The same steps, with fewer calls, for the properties about what
\* eventually happens.
FairNext ==
    \/ \E in \in Inputs : Cardinality(Callers) < MaxFairCalls /\ batchRequestMiddleware(in)
    \/ Tick
    \/ \E t \in timers : TimerFires(t)
    \/ \E k \in BatchIds : \E f \in 1..Len(fetches[k]) : TransportResolves(k, f)
    \/ \E k \in BatchIds : \E f \in 1..Len(fetches[k]) : TransportRejects(k, f)

\* Time passes, due timers fire and the transport answers.
FairSpec ==
    /\ Init
    /\ [][FairNext]_vars
    /\ WF_vars(Tick)
    /\ WF_vars(\E t \in timers : TimerFires(t))
    /\ WF_vars(\E k \in BatchIds : \E f \in 1..Len(fetches[k]) :
                   TransportResolves(k, f) \/ TransportRejects(k, f))

(* ---- observers used by the properties --------------------------------- *)

\* The record of call id = << kind, number >>.
Call(id) == calls[id[1]][id[2]]

\* The calls that were batched (the callers of eligible requests).
Batched == { id \in Callers : Call(id).via # "next" }

\* The places << k, f, pos >> at which the request of call id was sent: the
\* bodies tell the requests apart.
SentAt(id) ==
    UNION { UNION { { << k, f, pos >> :
                        pos \in { q \in DOMAIN fetches[k][f].request.data.requests :
                                    fetches[k][f].request.data.requests[q].body
                                        = Call(id).options.body } } :
                    f \in DOMAIN fetches[k] } :
            k \in BatchIds }

\* The combined requests << k, f >> that carried the request of call id.
Carriers(id) == { << p[1], p[2] >> : p \in SentAt(id) }

\* The places << k, pos >> at which the request of call id is pending.
HeldAt(id) ==
    UNION { { << k, pos >> :
                pos \in { q \in DOMAIN awaitingBatches[k].requests :
                            awaitingBatches[k].requests[q] = Call(id).options } } :
            k \in DOMAIN awaitingBatches }

\* Calls i and j sit in the same batch, i before j: pending under one key,
\* or sent in one combined request.
Together(i, j) ==
    \/ \E a \in HeldAt(i), b \in HeldAt(j) : a[1] = b[1] /\ a[2] < b[2]
    \/ \E a \in SentAt(i), b \in SentAt(j) :
          a[1] = b[1] /\ a[2] = b[2] /\ a[3] < b[3]

\* The step is a call of the middleware; NewId names it and NewCall is its
\* record.
Submitted == \E in \in Inputs : Len(calls'[in]) = Len(calls[in]) + 1
NewId ==
    LET in == CHOOSE k \in Inputs : Len(calls'[k]) = Len(calls[k]) + 1
    IN << in, Len(calls[in]) + 1 >>
NewCall == calls'[NewId[1]][NewId[2]]

\* The call that scheduled timer t: the first request of its batch.
OpenerOf(t) ==
    CHOOSE id \in Batched :
        /\ Call(id).via = "commitEventually"
        /\ Call(id).batchId = t.batchId
        /\ Call(id).awaits = t.promise
        /\ Call(id).requestIdx = 0

\* The calls for the key of timer t made since (and including) its opener.
SinceOpener(t) ==
    { id \in CallsFor(t.batchId) :
        id[1] = OpenerOf(t)[1] /\ id[2] >= OpenerOf(t)[2] }

\* Timer t was left behind by a batch that the size trigger flushed.
Orphaned(t) ==
    \E c \in Carriers(OpenerOf(t)) : fetches[c[1]][c[2]].trigger = "size"

(* ---- C1 --------------------------------------------------------------- *)

\* C1: requests for one key submitted within the time window opened by the
\* first of them, at most MAX_BATCH_SIZE in number, travel in one combined
\* request in submission order.  Stated on the step that submits a request
\* while the window of an earlier opener is still running (its timer has
\* time remaining) and fewer than MAX_BATCH_SIZE requests for the key were
\* made since: the new request joins the opener's batch, behind it.
C1_OneCombinedRequestPerWindow ==
    [][ (Submitted /\ NewCall.via # "next") =>
          \A t \in timers :
              ( /\ t.batchId = NewCall.batchId
                /\ t.remaining > 0
                /\ Cardinality(SinceOpener(t)) < MAX_BATCH_SIZE )
              => \E o \in { OpenerOf(t) }, n \in { NewId } :
                     Together(o, n)' ]_vars

(* ---- C2 --------------------------------------------------------------- *)

\* C2: a caller that resolved holds the element at its requestIdx of the
\* response to the combined request that carried its request.
C2_ResolvesWithOwnSubResponse ==
    \A id \in Batched :
        Call(id).outcome = "resolved" =>
            \E c \in Carriers(id) :
                Call(id).value = << "response", c[1], c[2], Call(id).requestIdx + 1 >>

(* ---- C3 --------------------------------------------------------------- *)

\* C3: with timers firing and the transport settling every combined
\* request, every caller of an eligible request is eventually resolved or
\* rejected.
C3_EveryCallerSettles ==
    \A id \in Inputs \X (1..MaxFairCalls) :
        (id \in Batched) ~>
            (id \in Batched /\ Call(id).outcome \in { "resolved", "rejected" })

(* ---- C4 --------------------------------------------------------------- *)

\* C4: once the transport has rejected a combined request with error E,
\* every caller whose request it carried is rejected with E.
C4_RejectionReachesWholeBatch ==
    \A id \in Batched :
        \A c \in Carriers(id) :
            fetches[c[1]][c[2]].status = "rejected" =>
                /\ Call(id).outcome = "rejected"
                /\ Call(id).value = ErrorOf(c[1], c[2])

(* ---- C5 --------------------------------------------------------------- *)

\* The paths of the input kinds that are batch-capable.
BatchCapablePaths == { TemplatePartPath }

\* C5: a call is batched exactly when its method is POST, PUT, PATCH or
\* DELETE, its tag is non-empty and its path is batch-capable; any other
\* call hands its options to next once, returns what next returned, and
\* leaves the registry, the timers and the combined requests alone.
C5_IneligibleBypass ==
    [][ Submitted =>
          IF /\ NewCall.options.method \in { "POST", "PUT", "PATCH", "DELETE" }
             /\ NewCall.options.batchAs # ""
             /\ NewCall.options.path \in BatchCapablePaths
          THEN /\ nextCalls' = nextCalls
               /\ \E n \in { NewId } : (HeldAt(n) \cup Carriers(n) # {})'
          ELSE /\ nextCalls' = Append(nextCalls, NewCall.options)
               /\ NewCall.options = Options(NewId[1], NewId[2])
               /\ NewCall.outcome = "returned"
               /\ NewCall.value = NextResult(Len(nextCalls) + 1)
               /\ UNCHANGED << awaitingBatches, timers, fetches, promises >> ]_vars

\* A bypassing call was made while a batch was pending, a timer scheduled
\* and a combined request issued.
C5_Witness ==
    /\ nextCalls # << >>
    /\ Cardinality(Batched) >= MAX_BATCH_SIZE + 1
    /\ \A id \in Batched : Call(id).outcome = "pending"
    /\ DOMAIN awaitingBatches # {}
    /\ timers # {}
    /\ \E k \in BatchIds : fetches[k] # << >>

(* ---- C6 --------------------------------------------------------------- *)

\* The call before the new one for the same kind of options filled its
\* batch.
LastFilled ==
    /\ NewId[2] > 1
    /\ calls[NewId[1]][NewId[2] - 1].requestIdx + 1 >= MAX_BATCH_SIZE

\* The combined request a call step issued.
Issued == fetches'[NewCall.batchId][Len(fetches'[NewCall.batchId])].request

\* C6: the call whose request gets an index idx with idx + 1 >=
\* MAX_BATCH_SIZE issues the combined request for the whole batch in its
\* own step and removes the batch from the registry; the next eligible
\* call for the key starts a new batch at index 0.
C6_SizeTriggeredFlush ==
    [][ (Submitted /\ NewCall.via # "next") =>
          /\ NewCall.requestIdx + 1 >= MAX_BATCH_SIZE =>
                /\ Len(fetches'[NewCall.batchId]) = Len(fetches[NewCall.batchId]) + 1
                /\ Len(Issued.data.requests) = NewCall.requestIdx + 1
                /\ Issued.data.requests[NewCall.requestIdx + 1].body
                       = NewCall.options.body
                /\ NewCall.batchId \notin DOMAIN awaitingBatches'
          /\ LastFilled =>
                /\ NewCall.requestIdx = 0
                /\ NewCall.batchId \notin DOMAIN awaitingBatches
                /\ NewCall.batchId \in DOMAIN awaitingBatches'
                /\ awaitingBatches'[NewCall.batchId].requests = << NewCall.options >> ]_vars

\* A batch was flushed by size while its window was still running, and the
\* next call for the key started a batch of its own.
C6_Witness ==
    \E i, j \in Batched :
        /\ i[1] = j[1]
        /\ i[2] + 1 = j[2]
        /\ Call(i).via = "commit"
        /\ Call(j).requestIdx = 0
        /\ HeldAt(j) # {}
        /\ \E t \in timers : t.remaining > 0 /\ Orphaned(t)

(* ---- C7 --------------------------------------------------------------- *)

\* C7: when the timer left behind by a size-flushed batch fires, nothing
\* happens: no error is raised and no combined request is issued.
C7_OrphanedTimerIsNoOp ==
    [][ \A t \in timers :
          (t \notin timers' /\ Orphaned(t)) =>
              /\ thrown' = thrown
              /\ fetches' = fetches ]_vars

(* ---- C8 --------------------------------------------------------------- *)

SameKey(o1, o2) == o1.batchAs = o2.batchAs /\ o1.method = o2.method

\* C8: requests whose tags or methods differ never sit in one batch and
\* never travel in one combined request.
C8_KeyIsolation ==
    /\ \A k \in DOMAIN awaitingBatches :
          \A a, b \in 1..Len(awaitingBatches[k].requests) :
              SameKey(awaitingBatches[k].requests[a], awaitingBatches[k].requests[b])
    /\ \A i, j \in Batched :
          Carriers(i) \cap Carriers(j) # {} => SameKey(Call(i).options, Call(j).options)

\* Two requests whose keys differ are pending in the same tick, next to a
\* batch of two.
C8_Witness ==
    \E i, j \in Batched :
        /\ ~SameKey(Call(i).options, Call(j).options)
        /\ HeldAt(i) # {}
        /\ HeldAt(j) # {}
        /\ \A t \in timers : t.remaining = BATCH_TIME_WINDOW
        /\ \E k \in DOMAIN awaitingBatches : Len(awaitingBatches[k].requests) > 1

(* ---- C9 --------------------------------------------------------------- *)

\* The step issues a combined request for key k.
Issues(k) == Len(fetches'[k]) = Len(fetches[k]) + 1

\* The requests of the batch of key k the step commits, as they were
\* pending.
Committed(k) ==
    LET before == IF k \in DOMAIN awaitingBatches
                  THEN awaitingBatches[k].requests
                  ELSE << >>
    IN IF Submitted THEN Append(before, NewCall.options) ELSE before

\* C9: every combined request is a POST to the batch endpoint with
\* validation 'require-all-validate' whose requests are, position by
\* position, the (path, body, headers) of the pending requests and nothing
\* else.
C9_WireProjection ==
    [][ \A k \in BatchIds : Issues(k) =>
          LET sent == fetches'[k][Len(fetches'[k])].request
          IN /\ DOMAIN sent = { "path", "method", "data" }
             /\ sent.path = BatchEndpoint
             /\ sent.method = "POST"
             /\ DOMAIN sent.data = { "validation", "requests" }
             /\ sent.data.validation = "require-all-validate"
             /\ Len(sent.data.requests) = Len(Committed(k))
             /\ \A p \in 1..Len(Committed(k)) :
                   /\ DOMAIN sent.data.requests[p] = { "path", "body", "headers" }
                   /\ sent.data.requests[p].path = Committed(k)[p].path
                   /\ sent.data.requests[p].body = Committed(k)[p].body
                   /\ sent.data.requests[p].headers = Committed(k)[p].headers ]_vars

\* Combined requests of several requests were issued by the timer and by
\* the size trigger.
C9_Witness ==
    /\ \E k \in BatchIds : \E f \in 1..Len(fetches[k]) :
          fetches[k][f].trigger = "timer" /\ Len(fetches[k][f].request.data.requests) > 1
    /\ \E k \in BatchIds : \E f \in 1..Len(fetches[k]) :
          fetches[k][f].trigger = "size" /\ Len(fetches[k][f].request.data.requests) > 1

(* ---- C10 -------------------------------------------------------------- *)

\* Every eligible request is in exactly one place: one position of one
\* pending batch, or one position of one combined request.
C10_ExactlyOnePlace ==
    \A id \in Batched : Cardinality(HeldAt(id)) + Cardinality(SentAt(id)) = 1

\* C10: every eligible request sits in exactly one batch while pending, is
\* never sent twice, and is eventually sent in one combined request.
C10_NoLossNoDuplication ==
    /\ []C10_ExactlyOnePlace
    /\ \A id \in Inputs \X (1..MaxFairCalls) :
          (id \in Batched) ~>
              (id \in Batched /\ HeldAt(id) = {} /\ Cardinality(SentAt(id)) = 1)

\* Requests were sent by a size flush and then by the timer that flush left
\* behind, a later timer found the key gone, and every request is out.
C10_Witness ==
    /\ Batched # {}
    /\ DOMAIN awaitingBatches = {}
    /\ \E k \in BatchIds : \E f \in 1..Len(fetches[k]) : fetches[k][f].trigger = "size"
    /\ \E k \in BatchIds : \E f \in 1..Len(fetches[k]) : fetches[k][f].trigger = "timer"
    /\ thrown > 0

(* ---- C11 -------------------------------------------------------------- *)

\* Timer t fires in this step.
Fires(t) == t \in timers /\ t.remaining = 0 /\ t \notin timers' /\ ~Submitted

\* C11: a timer that fires commits nothing but the batch whose first
\* request scheduled it: if its firing issues a combined request, the batch
\* committed is the one holding the timer's promise.
C11_TimerCommitsOwnBatchOnly ==
    [][ \A t \in timers :
          (Fires(t) /\ Issues(t.batchId)) =>
              /\ t.batchId \in DOMAIN awaitingBatches
              /\ awaitingBatches[t.batchId].promise = t.promise ]_vars

(* ---- C12 -------------------------------------------------------------- *)

\* C12: no batch is pending for longer than BATCH_TIME_WINDOW after its
\* first request: the clock cannot pass the end of a batch's window while
\* the batch is still in the registry.
C12_BoundedFlushDelay ==
    \A k \in DOMAIN awaitingBatches : elapsed[k] <= BATCH_TIME_WINDOW

\* A batch of two requests is pending at the very end of its window, after
\* a timer flushed an earlier batch.
C12_Witness ==
    /\ \E k \in DOMAIN awaitingBatches :
          /\ elapsed[k] = BATCH_TIME_WINDOW
          /\ Len(awaitingBatches[k].requests) > 1
    /\ \E k \in BatchIds : \E f \in 1..Len(fetches[k]) : fetches[k][f].trigger = "timer"

(* ---- C13 -------------------------------------------------------------- *)

\* The bodies of the sub-requests of a combined request.
Bodies(request) ==
    { request.data.requests[q].body : q \in DOMAIN request.data.requests }

\* C13: the first request of a batch schedules exactly one timer, on the
\* promise the batch then holds; a later request on the eventual path gets
\* the promise the batch already holds and schedules nothing; and a combined
\* request carries no request that an earlier combined request carried, so
\* no batch is committed twice.
C13_OneTimerPerBatch ==
    [][ /\ (Submitted /\ NewCall.via = "commitEventually") =>
              LET k == NewCall.batchId
              IN IF NewCall.requestIdx = 0
                 THEN /\ timers \subseteq timers'
                      /\ Cardinality(timers' \ timers) = 1
                      /\ \A t \in timers' \ timers :
                            /\ t.batchId = k
                            /\ t.promise = NewCall.awaits
                            /\ t.promise = awaitingBatches'[k].promise
                            /\ t.promise \notin { u.promise : u \in { v \in timers : v.batchId = k } }
                 ELSE /\ timers' = timers
                      /\ Len(promises'[k]) = Len(promises[k])
                      /\ NewCall.awaits = awaitingBatches[k].promise
                      /\ awaitingBatches'[k].promise = awaitingBatches[k].promise
        /\ \A k \in BatchIds :
              Issues(k) =>
                  \A f \in 1..Len(fetches[k]) :
                      Bodies(fetches[k][f].request)
                          \cap Bodies(fetches'[k][Len(fetches'[k])].request) = {} ]_vars

\* A request that joined a batch is pending behind the first one, holding the
\* promise of the batch, and one timer is scheduled on that promise, after
\* an earlier batch of the key was committed.
C13_Witness ==
    \E id \in Batched :
        /\ Call(id).via = "commitEventually"
        /\ Call(id).requestIdx > 0
        /\ HeldAt(id) # {}
        /\ Call(id).awaits = awaitingBatches[Call(id).batchId].promise
        /\ Cardinality({ t \in timers : /\ t.batchId = Call(id).batchId
                                        /\ t.promise = Call(id).awaits }) = 1
        /\ Len(fetches[Call(id).batchId]) > 0

(* ---- C14 -------------------------------------------------------------- *)

\* C14: when a combined request is issued for a key, by a timer or by the
\* size trigger, the registry has no batch under that key; and whatever
\* happens later, a request submitted included, the requests of a combined
\* request that was issued stay as they were sent.
C14_RemoveBeforeSend ==
    [][ \A k \in BatchIds :
          /\ Issues(k) => k \notin DOMAIN awaitingBatches'
          /\ \A f \in 1..Len(fetches[k]) :
                /\ f <= Len(fetches'[k])
                /\ fetches'[k][f].request = fetches[k][f].request ]_vars

\* After a timer flush and a size flush of one key, a request submitted later
\* is pending under the key in a batch of its own.
C14_Witness ==
    \E k \in DOMAIN awaitingBatches :
        /\ \E f \in 1..Len(fetches[k]) : fetches[k][f].trigger = "timer"
        /\ \E f \in 1..Len(fetches[k]) : fetches[k][f].trigger = "size"
        /\ \A f \in 1..Len(fetches[k]) :
              Bodies(fetches[k][f].request)
                  \cap { awaitingBatches[k].requests[q].body :
                           q \in DOMAIN awaitingBatches[k].requests } = {}

(* ---- C15 -------------------------------------------------------------- *)

\* C15: a batch in the registry holds between 1 and MAX_BATCH_SIZE - 1
\* requests, and a combined request carries between 1 and MAX_BATCH_SIZE
\* sub-requests.
C15_SizeBound ==
    /\ \A k \in DOMAIN awaitingBatches :
          Len(awaitingBatches[k].requests) \in 1..(MAX_BATCH_SIZE - 1)
    /\ \A k \in BatchIds : \A f \in 1..Len(fetches[k]) :
          Len(fetches[k][f].request.data.requests) \in 1..MAX_BATCH_SIZE

\* A combined request of MAX_BATCH_SIZE sub-requests was issued and a batch
\* of MAX_BATCH_SIZE - 1 requests is pending.
C15_Witness ==
    /\ \E k \in DOMAIN awaitingBatches :
          Len(awaitingBatches[k].requests) = MAX_BATCH_SIZE - 1
    /\ \E k \in BatchIds : \E f \in 1..Len(fetches[k]) :
          Len(fetches[k][f].request.data.requests) = MAX_BATCH_SIZE

(* ---- C16 -------------------------------------------------------------- *)

\* C16: every batch in the registry has a promise, and a timer that will
\* call commit for its key is still pending.
C16_NoStrandedBatch ==
    \A k \in DOMAIN awaitingBatches :
        /\ awaitingBatches[k].promise # NoPromise
        /\ \E t \in timers : t.batchId = k

\* A batch is pending under a key whose earlier batch a timer committed, and
\* the timer its own first request scheduled is running.
C16_Witness ==
    \E k \in DOMAIN awaitingBatches :
        /\ \E f \in 1..Len(fetches[k]) : fetches[k][f].trigger = "timer"
        /\ \E t \in timers :
              /\ t.batchId = k
              /\ t.promise = awaitingBatches[k].promise
              /\ t.remaining < BATCH_TIME_WINDOW

(* ---- C17 -------------------------------------------------------------- *)

\* The step leaves every key but K as it was: its batch in the registry
\* (requests and promise), its promises and its pending timers.
OtherKeysUnchanged(K) ==
    \A k \in BatchIds \ { K } :
        /\ (k \in DOMAIN awaitingBatches') = (k \in DOMAIN awaitingBatches)
        /\ k \in DOMAIN awaitingBatches => awaitingBatches'[k] = awaitingBatches[k]
        /\ promises'[k] = promises[k]
        /\ { t \in timers' : t.batchId = k } = { t \in timers : t.batchId = k }

\* C17: a request submitted for key K, whether it joins a batch or commits
\* it by size, and a timer of key K that fires, leave the batches, promises
\* and timers of every other key unchanged.
C17_CrossKeyFrame ==
    [][ /\ (Submitted /\ NewCall.via # "next") => OtherKeysUnchanged(NewCall.batchId)
        /\ \A t \in timers : Fires(t) => OtherKeysUnchanged(t.batchId) ]_vars

\* While a batch of one key has been pending for a tick or more, another key
\* received MAX_BATCH_SIZE requests within one tick and was committed by size.
C17_Witness ==
    \E k1 \in BatchIds, k2 \in DOMAIN awaitingBatches :
        /\ k1 # k2
        /\ elapsed[k2] >= 1
        /\ \E f \in 1..Len(fetches[k1]) : fetches[k1][f].trigger = "size"
        /\ \E t \in timers : t.batchId = k1 /\ t.remaining = BATCH_TIME_WINDOW

====
